---- MODULE Spec2Model ----
(***************************************************************************)
(* Model of script/release_manager.py: the release run that synchronises   *)
(* a local asset tree and the versioned config (manifest) files with an    *)
(* S3 bucket.                                                              *)
(*                                                                         *)
(* The bucket is a key/value store.  A key is a tuple of path components:  *)
(*   <<"assets", stem, ext>>         for 'assets/' + stem + ext            *)
(*   <<"assets", stem, ext, ".gz">>  for its compressed sibling            *)
(*   <<"config", <<m, n, p>>>>       for 'config/m.n.p.json'               *)
(* A file name is the tuple of its stem and extensions.  Byte strings are  *)
(* sequences of numbers, ContentLength is their length.                    *)
(***************************************************************************)
EXTENDS Integers, Sequences, FiniteSets, TLC

VARIABLES
    bucket,           \* the S3 bucket: key -> [Body, Metadata, VersionId]
    disk,             \* the output directory: <<dir, filename>> -> bytes
    pc,               \* position of the script
    err,              \* the exception that ended the run, or "none"
    COMPATIBLE,       \* argv --compatible
    ONLY_UPGRADE,     \* argv --only: a set of names, or None
    NEW_VERSION,      \* argv[4], from when the script reads it (line 611)
    existing_assets,  \* update_changed_assets: name -> remote asset read at the start
    existing_configs, \* update_changed_assets: key -> [content, key, updated]
    assets,           \* update_changed_assets: the filtered list of (dir, filename)
    i,                \* index into assets of the loop of update_changed_assets
    asset,            \* update_asset: the asset dict built so far, between its two uploads
    updated_assets,   \* update_changed_assets: built assets in insertion order
    runs,             \* number of runs started
    edited,           \* the local files changed since the last run started
    repeat,           \* this run repeats the last one (same files and options): how that one ended
    previous,         \* name -> version returned by the last run, if it completed
    puts              \* number of put_object calls for assets of this run

vars == <<bucket, disk, pc, err, COMPATIBLE, ONLY_UPGRADE, NEW_VERSION, existing_assets,
          existing_configs, assets, i, asset, updated_assets, runs, edited,
          repeat, previous, puts>>

----------------------------------------------------------------------------
(* Bounds and input domains *)

MaxRuns == 3

\* An empty dict, an empty bucket; also Python's None for a byte string that
\* is not there (the script tests it by truth value only).
Empty == <<>>

None == <<>>

\* File names the asset tree may hold, in the order of Python's str comparison.
FileOrder ==
    << <<"a", ".json">>, <<"a", ".json", ".gz">>, <<"b", ".png">> >>

Names == { <<"a", ".json">>, <<"b", ".png">> }

\* The output directory and one subdirectory of it.
Root == "out"
Sub == "out/sub"

Contents == { <<1>>, <<2, 2>> }

\* The bytes of the compressed sibling the minifier writes next to a file.
Gzip(c) == <<0>> \o c

\* The values --only is run with.
OnlyChoices ==
    { [given |-> FALSE, names |-> {}], [given |-> TRUE, names |-> { <<"a", ".json">> }] }

\* The version tokens the script is run with: a word, or X.Y.Z as <<X, Y, Z>>.
Tokens == { <<"major">>, <<"minor">>, <<"patch">>, <<"bogus">>, <<0, 1, 0>> }

----------------------------------------------------------------------------
(* The store *)

ContentLength(body) == Len(body)

AssetKey(name) == <<"assets">> \o name

ZippedKey(name) == <<"assets">> \o name \o <<".gz">>

ConfigKey(version) == <<"config", version>>

\* bucket.put_object: the store assigns the object a new VersionId.
PutObject(b, key, body, metadata) ==
    [k \in DOMAIN b \cup {key} |->
        IF k = key
        THEN [Body |-> body,
              Metadata |-> metadata,
              VersionId |-> IF key \in DOMAIN b THEN b[key].VersionId + 1 ELSE 1]
        ELSE b[k]]

\* The public URL of one stored version of an object.
Url(key, versionId) == [key |-> key, versionId |-> versionId]

\* Every order in which bucket.objects.all() may list the keys of S.
Listings(S) ==
    { f \in [1..Cardinality(S) -> S] : \A k \in S : \E j \in DOMAIN f : f[j] = k }

IsConfigKey(k) == k[1] = "config" /\ Len(k) > 1

IsAssetKey(k) == k[1] = "assets" /\ Len(k) > 1

IsZipped(name) == name[Len(name)] = ".gz"

----------------------------------------------------------------------------
(* Version resolution *)

\* The inner loop of get_most_recent_config from element e on: the item is
\* adopted as soon as one of its elements exceeds the same element of
\* max_version.
RECURSIVE Adopts(_, _, _)
Adopts(item_version, max_version, e) ==
    IF e > 3 THEN FALSE
    ELSE IF item_version[e] > max_version[e] THEN TRUE
    ELSE Adopts(item_version, max_version, e + 1)

\* get_most_recent_config over the listing objects[j..], with max_version so far.
RECURSIVE MostRecentFrom(_, _, _)
MostRecentFrom(objects, j, max_version) ==
    IF j > Len(objects) THEN max_version
    ELSE IF ~IsConfigKey(objects[j]) THEN MostRecentFrom(objects, j + 1, max_version)
    ELSE LET item_version == objects[j][2]
         IN  MostRecentFrom(objects, j + 1,
                 IF Adopts(item_version, max_version, 1)
                 THEN item_version ELSE max_version)

get_most_recent_config(objects) == MostRecentFrom(objects, 1, <<0, 0, 0>>)

\* re.match(r'[0-9]+[.][0-9]+[.][0-9]+', version): the token is a version.
IsVersion(version) == Len(version) = 3

\* get_release_config_version raises ValueError.
RaisesValueError(version) ==
    ~IsVersion(version) /\ version \notin { <<"major">>, <<"minor">>, <<"patch">> }

\* get_release_config_version: the version to build.
get_release_config_version(objects, version) ==
    IF IsVersion(version) THEN version
    ELSE LET last_version == get_most_recent_config(objects)
         IN  CASE version = <<"major">> -> <<last_version[1] + 1, 0, 0>>
               [] version = <<"minor">> -> <<last_version[1], last_version[2] + 1, 0>>
               [] version = <<"patch">> ->
                      <<last_version[1], last_version[2], last_version[3] + 1>>

----------------------------------------------------------------------------
(* Reading the remote state *)

\* parse_existing_config
parse_existing_config(b, key, configs) ==
    [k \in DOMAIN configs \cup {key} |->
        IF k = key
        THEN [content |-> b[key].Body, key |-> key, updated |-> FALSE]
        ELSE configs[k]]

\* parse_existing_asset raises KeyError: a compressed key is read and its
\* base key has not been read.
RaisesKeyError(key, existing) ==
    LET item_key == SubSeq(key, 2, Len(key))
    IN  IsZipped(item_key) /\ SubSeq(item_key, 1, Len(item_key) - 1) \notin DOMAIN existing

\* parse_existing_asset: the assets read so far with this item added.
parse_existing_asset(b, key, existing) ==
    LET item_key == SubSeq(key, 2, Len(key))
    IN  IF IsZipped(item_key)
        THEN [existing EXCEPT ![SubSeq(item_key, 1, Len(item_key) - 1)].zipped = TRUE]
        ELSE [k \in DOMAIN existing \cup {item_key} |->
                 IF k = item_key
                 THEN [content |-> b[key].Body,
                       version |-> b[key].Metadata.version,
                       versionId |-> b[key].VersionId,
                       zipped |-> FALSE]
                 ELSE existing[k]]

\* The loop of update_changed_assets over the listing, for the assets:
\* [error, existing], the loop ending at the first exception.
RECURSIVE ReadAssets(_, _, _, _)
ReadAssets(b, objects, j, existing) ==
    IF j > Len(objects) THEN [error |-> "none", existing |-> existing]
    ELSE IF ~IsAssetKey(objects[j]) THEN ReadAssets(b, objects, j + 1, existing)
    ELSE IF RaisesKeyError(objects[j], existing)
         THEN [error |-> "KeyError", existing |-> existing]
    ELSE ReadAssets(b, objects, j + 1, parse_existing_asset(b, objects[j], existing))

\* The same loop, for the configs.
RECURSIVE ReadConfigs(_, _, _, _)
ReadConfigs(b, objects, j, configs) ==
    IF j > Len(objects) THEN configs
    ELSE IF IsConfigKey(objects[j])
         THEN ReadConfigs(b, objects, j + 1, parse_existing_config(b, objects[j], configs))
         ELSE ReadConfigs(b, objects, j + 1, configs)

AssetKeys(b) == { k \in DOMAIN b : IsAssetKey(k) }

ConfigKeys(b) == { k \in DOMAIN b : IsConfigKey(k) }

\* One listing of the config keys (what is read of the configs does not
\* depend on their order).
RECURSIVE SomeListing(_)
SomeListing(S) ==
    IF S = {} THEN <<>>
    ELSE LET k == CHOOSE x \in S : TRUE IN <<k>> \o SomeListing(S \ {k})

----------------------------------------------------------------------------
(* The local files *)

\* Position of a file name in Python's order of str.
Rank(name) == CHOOSE r \in DOMAIN FileOrder : FileOrder[r] = name

\* The files of one directory, as os.listdir gives them (any order: the sort
\* that follows orders the distinct names of one directory).
RECURSIVE ListDir(_, _)
ListDir(d, dir) ==
    LET here == { p \in DOMAIN d : p[1] = dir }
    IN  IF here = {} THEN <<>>
        ELSE LET p == CHOOSE q \in here : \A r \in here : Rank(q[2]) <= Rank(r[2])
             IN  <<p>> \o ListDir([q \in DOMAIN d \ {p} |-> d[q]], dir)

\* list.sort(key=lambda s: s[1]): stable, so files of one name keep their order.
RECURSIVE SortByName(_)
SortByName(files) ==
    IF files = <<>> THEN <<>>
    ELSE LET first == CHOOSE j \in DOMAIN files :
                         \A k \in DOMAIN files :
                             \/ Rank(files[j][2]) < Rank(files[k][2])
                             \/ Rank(files[j][2]) = Rank(files[k][2]) /\ j <= k
             rest == [k \in 1..(Len(files) - 1) |->
                         IF k < first THEN files[k] ELSE files[k + 1]]
         IN  <<files[first]>> \o SortByName(rest)

\* get_all_assets: the files of the directory, then those of its
\* subdirectory, sorted by file name.
get_all_assets(d) == SortByName(ListDir(d, Root) \o SortByName(ListDir(d, Sub)))

\* The filter of --only.
RECURSIVE FilterOnly(_, _)
FilterOnly(files, only) ==
    IF files = <<>> THEN <<>>
    ELSE (IF ~only.given \/ files[1][2] \in only.names THEN <<files[1]>> ELSE <<>>)
         \o FilterOnly(Tail(files), only)

\* The loop of update_changed_assets skips the compressed files: the next
\* index from j on that holds another file.
RECURSIVE NextAsset(_, _)
NextAsset(files, j) ==
    IF j > Len(files) THEN j
    ELSE IF IsZipped(files[j][2]) THEN NextAsset(files, j + 1)
    ELSE j

\* The trees the output directory is given: a.json with or without its
\* compressed sibling, b.png, and a second a.json in the subdirectory.
TreeOf(a, z, b, s) ==
    LET paths == (IF a = None THEN {} ELSE { <<Root, <<"a", ".json">>>> })
                 \cup (IF z THEN { <<Root, <<"a", ".json", ".gz">>>> } ELSE {})
                 \cup (IF b = None THEN {} ELSE { <<Root, <<"b", ".png">>>> })
                 \cup (IF s = None THEN {} ELSE { <<Sub, <<"a", ".json">>>> })
    IN  [p \in paths |->
            IF p[1] = Sub THEN s
            ELSE IF p[2] = <<"b", ".png">> THEN b
            ELSE IF IsZipped(p[2]) THEN Gzip(a)
            ELSE a]

LocalTrees ==
    { TreeOf(a, z, None, None) : a \in Contents, z \in BOOLEAN }
    \cup { TreeOf(<<1>>, FALSE, <<1>>, None), TreeOf(<<1>>, FALSE, None, <<2, 2>>) }

----------------------------------------------------------------------------
(* update_asset *)

\* A dict with d[k] = v set, and with key k popped.
Set(d, k, v) == [x \in DOMAIN d \cup {k} |-> IF x = k THEN v ELSE d[x]]

Pop(d, k) == [x \in DOMAIN d \ {k} |-> d[x]]

\* int(time.time()): the clock advances from run to run.
Now == runs

\* ASSET_TYPES and get_asset_type: by the last extension of the name.
get_asset_type(asset_name) ==
    LET filetype == asset_name[Len(asset_name)]
    IN  CASE filetype \in { ".json" } -> "json"
          [] filetype \in { ".png", ".gif", ".jpg" } -> "image"
          [] filetype \in { ".txt" } -> "text"
          [] OTHER -> "null"

\* The file of the loop of update_changed_assets and what is read of it.
AssetContent(file) == disk[file]

AssetZContent(file) ==
    LET zfile == <<file[1], file[2] \o <<".gz">>>>
    IN  IF zfile \in DOMAIN disk THEN disk[zfile] ELSE None

\* upload_file of update_changed_assets: False when the remote content read
\* at the start equals the local content.
UploadFile(file) ==
    ~(file[2] \in DOMAIN existing_assets
      /\ existing_assets[file[2]].content = AssetContent(file))

\* last_version of update_changed_assets.
LastVersion(file) ==
    IF file[2] \in DOMAIN existing_assets
       /\ existing_assets[file[2]].content # AssetContent(file)
    THEN existing_assets[file[2]].version
    ELSE 0

\* update_asset, first upload: the bucket after it.
UploadBase(b, name, content, version, upload_file) ==
    IF upload_file
    THEN PutObject(b, AssetKey(name), content, [version |-> version])
    ELSE b

\* update_asset: the asset dict read back from the stored base object.
BaseAsset(b, name) ==
    LET base_object == b[AssetKey(name)]
    IN  [size |-> ContentLength(base_object.Body),
         url |-> Url(AssetKey(name), base_object.VersionId),
         version |-> base_object.Metadata.version]

\* update_asset, second upload: the bucket after it.
UploadZippedObject(b, name, zcontent, version, upload_file) ==
    IF upload_file
    THEN PutObject(b, ZippedKey(name), zcontent, [version |-> version])
    ELSE b

\* update_asset: the asset dict with the stored compressed object's fields.
ZippedAsset(b, name, a) ==
    LET zipped_object == b[ZippedKey(name)]
    IN  Set(Set(a, "zsize", ContentLength(zipped_object.Body)),
            "zurl", Url(ZippedKey(name), zipped_object.VersionId))

\* The test with the entry's version compared to the new version itself.
PatchMatches_SameVersion(file, name, version) ==
    ~(file.name # name \/ file.version # version)

\* update_asset, compatible: the test of one file entry of a config.
PatchMatches(file, name, version) ==
    ~(file.name # name \/ file.version # version - 1)

\* The loop body with only zsize popped when the new asset has no compressed
\* sibling.
PatchFile_PopsZsizeOnly(file, name, a) ==
    IF ~PatchMatches(file, name, a.version) THEN file
    ELSE LET f == [file EXCEPT !.size = a.size, !.url = a.url, !.version = a.version]
         IN  IF "zsize" \in DOMAIN file
             THEN IF "zsize" \in DOMAIN a
                  THEN Set(Set(f, "zsize", a.zsize), "zurl", a.zurl)
                  ELSE Pop(f, "zsize")
             ELSE f

\* update_asset, compatible: one file entry after the loop body.
PatchFile(file, name, a) ==
    IF ~PatchMatches(file, name, a.version) THEN file
    ELSE LET f == [file EXCEPT !.size = a.size, !.url = a.url, !.version = a.version]
         IN  IF "zsize" \in DOMAIN file
             THEN IF "zsize" \in DOMAIN a
                  THEN Set(Set(f, "zsize", a.zsize), "zurl", a.zurl)
                  ELSE Pop(Pop(f, "zsize"), "zurl")
             ELSE f

\* update_asset, compatible: the configs after the loop over them.
PatchConfigs(configs, name, a) ==
    [c \in DOMAIN configs |->
        LET files == configs[c].content.files
        IN  IF \E j \in DOMAIN files : PatchMatches(files[j], name, a.version)
            THEN [content |-> [files |-> [j \in DOMAIN files |-> PatchFile(files[j], name, a)],
                               lastUpdatedAt |-> Now],
                  key |-> configs[c].key,
                  updated |-> TRUE]
            ELSE configs[c]]

\* built_asset of update_changed_assets.
BuiltAsset(name, a) ==
    LET built == [name |-> name, size |-> a.size, type |-> get_asset_type(name),
                  url |-> a.url, version |-> a.version]
    IN  IF "zurl" \in DOMAIN a /\ "zsize" \in DOMAIN a
        THEN Set(Set(built, "zsize", a.zsize), "zurl", a.zurl)
        ELSE built

\* updated_assets[slash_asset_name] = built_asset: a dict keeps the place of
\* a key it has already.
SetAsset(built_assets, built) ==
    IF \E j \in DOMAIN built_assets : built_assets[j].name = built.name
    THEN [j \in DOMAIN built_assets |->
             IF built_assets[j].name = built.name THEN built ELSE built_assets[j]]
    ELSE Append(built_assets, built)

----------------------------------------------------------------------------
(* The configs *)

\* build_release_config: <<config_key, config_details>>.
build_release_config(built_assets, version) ==
    <<ConfigKey(version),
      [content |-> [files |-> built_assets, lastUpdatedAt |-> Now],
       key |-> ConfigKey(version),
       updated |-> TRUE]>>

\* The loop of update_changed_configs over the configs named in keys.
RECURSIVE PutConfigs(_, _, _)
PutConfigs(b, configs, keys) ==
    IF keys = {} THEN b
    ELSE LET config == CHOOSE c \in keys : TRUE
         IN  PutConfigs(IF ~configs[config].updated THEN b
                        ELSE PutObject(b, configs[config].key, configs[config].content, Empty),
                        configs, keys \ {config})

\* update_changed_configs without the test of 'updated': every config is put.
update_changed_configs_PutsAll(b, configs) ==
    [k \in DOMAIN b \cup DOMAIN configs |->
        IF k \in DOMAIN configs
        THEN PutObject(b, configs[k].key, configs[k].content, Empty)[k]
        ELSE b[k]]

\* update_changed_configs: the bucket after it.
update_changed_configs(b, configs) == PutConfigs(b, configs, DOMAIN configs)

----------------------------------------------------------------------------
(* The run *)

Stopped == { "idle", "done", "failed", "aborted" }

Init ==
    /\ bucket = Empty
    /\ disk \in LocalTrees
    /\ pc = "idle"
    /\ err = "none"
    /\ COMPATIBLE = FALSE
    /\ ONLY_UPGRADE = [given |-> FALSE, names |-> {}]
    /\ NEW_VERSION = None
    /\ existing_assets = Empty
    /\ existing_configs = Empty
    /\ assets = <<>>
    /\ i = 1
    /\ asset = Empty
    /\ updated_assets = <<>>
    /\ runs = 0
    /\ edited = FALSE
    /\ repeat = "no"
    /\ previous = Empty
    /\ puts = 0

\* The process ends and its memory with it.
ProcessExit ==
    /\ existing_assets' = Empty
    /\ existing_configs' = Empty
    /\ assets' = <<>>
    /\ i' = 1
    /\ asset' = Empty
    /\ updated_assets' = <<>>
    /\ repeat' = "no"
    /\ puts' = 0

\* name -> version of the assets update_changed_assets returned.
Versions(built_assets) ==
    [n \in { built_assets[j].name : j \in DOMAIN built_assets } |->
        LET j == CHOOSE k \in DOMAIN built_assets : built_assets[k].name = n
        IN  built_assets[j].version]

\* The asset files change between two runs.
EditAssets ==
    /\ pc \in Stopped
    /\ runs < MaxRuns
    /\ ~edited
    /\ \E d \in LocalTrees \ {disk} : disk' = d
    /\ edited' = TRUE
    /\ UNCHANGED <<bucket, pc, err, COMPATIBLE, ONLY_UPGRADE, NEW_VERSION,
                   existing_assets, existing_configs, assets, i, asset, updated_assets,
                   runs, repeat, previous, puts>>

\* Where the script goes after the file at index j - 1.
AfterFile(files, j, compatible) ==
    IF j <= Len(files) THEN "asset"
    ELSE IF compatible THEN "configs" ELSE "release"

\* The script starts: argv is parsed, and update_changed_assets reads the
\* bucket and lists the local files (lines 572-437).
StartRun ==
    /\ pc \in Stopped
    /\ runs < MaxRuns
    /\ \E compatible \in BOOLEAN, only \in OnlyChoices, objects \in Listings(AssetKeys(bucket)) :
         LET read == ReadAssets(bucket, objects, 1, Empty)
             files == FilterOnly(get_all_assets(disk), only)
         IN  /\ COMPATIBLE' = compatible
             /\ ONLY_UPGRADE' = only
             /\ repeat' = IF runs > 0 /\ ~edited /\ compatible = COMPATIBLE
                             /\ only = ONLY_UPGRADE
                          THEN pc ELSE "no"
             /\ IF read.error # "none"
                THEN /\ pc' = "failed"
                     /\ err' = read.error
                     /\ existing_assets' = Empty
                     /\ existing_configs' = Empty
                     /\ assets' = <<>>
                     /\ i' = 1
                     /\ previous' = Empty
                ELSE /\ err' = "none"
                     /\ existing_assets' = read.existing
                     /\ existing_configs' =
                            ReadConfigs(bucket, SomeListing(ConfigKeys(bucket)), 1, Empty)
                     /\ assets' = files
                     /\ i' = NextAsset(files, 1)
                     /\ pc' = AfterFile(files, i', compatible)
                     /\ previous' = previous
    /\ runs' = runs + 1
    /\ edited' = FALSE
    /\ puts' = 0
    /\ asset' = Empty
    /\ updated_assets' = <<>>
    /\ NEW_VERSION' = None
    /\ UNCHANGED <<bucket, disk>>

\* The end of update_asset (lines 314-334) and of the loop body of
\* update_changed_assets (lines 475-487), with the bucket b and the asset dict a.
FinishAsset(b, a) ==
    LET name == assets[i][2]
    IN  /\ bucket' = b
        /\ existing_configs' = IF COMPATIBLE THEN PatchConfigs(existing_configs, name, a)
                               ELSE existing_configs
        /\ updated_assets' = SetAsset(updated_assets, BuiltAsset(name, a))
        /\ i' = NextAsset(assets, i + 1)
        /\ pc' = AfterFile(assets, i', COMPATIBLE)
        /\ asset' = Empty
        /\ err' = "none"

\* One pass of the loop of update_changed_assets up to the first upload of
\* update_asset (lines 440-294); the pass ends here for a file with no
\* compressed sibling.
UpdateAsset ==
    /\ pc = "asset"
    /\ LET file == assets[i]
           name == file[2]
           upload_file == UploadFile(file)
           b == UploadBase(bucket, name, AssetContent(file), LastVersion(file) + 1, upload_file)
           a == BaseAsset(b, name)
       IN  /\ puts' = IF upload_file THEN puts + 1 ELSE puts
           /\ IF AssetZContent(file) # <<>>
              THEN /\ bucket' = b
                   /\ asset' = a
                   /\ pc' = "zipped"
                   /\ UNCHANGED <<existing_configs, updated_assets, i, err>>
              ELSE FinishAsset(b, a)
    /\ UNCHANGED <<disk, COMPATIBLE, ONLY_UPGRADE, NEW_VERSION, existing_assets, assets,
                   runs, edited, repeat, previous>>

\* The upload of the compressed sibling (lines 296-312) and the rest of the pass.
UploadZipped ==
    /\ pc = "zipped"
    /\ LET file == assets[i]
           name == file[2]
           upload_file == UploadFile(file)
           b == UploadZippedObject(bucket, name, AssetZContent(file),
                                   LastVersion(file) + 1, upload_file)
       IN  IF ZippedKey(name) \notin DOMAIN b
              THEN /\ pc' = "failed"
                   /\ err' = "NoSuchKey"
                   /\ bucket' = b
                   /\ ProcessExit
                   /\ previous' = Empty
                   /\ UNCHANGED <<disk, COMPATIBLE, ONLY_UPGRADE, NEW_VERSION, runs, edited>>
              ELSE /\ puts' = IF upload_file THEN puts + 1 ELSE puts
                   /\ FinishAsset(b, ZippedAsset(b, name, asset))
                   /\ UNCHANGED <<disk, COMPATIBLE, ONLY_UPGRADE, NEW_VERSION,
                                  existing_assets, assets, runs, edited, repeat, previous>>

\* Lines 608-609: update_changed_configs on the existing configs.
UpdateChangedConfigs ==
    /\ pc = "configs"
    /\ bucket' = update_changed_configs(bucket, existing_configs)
    /\ pc' = "release"
    /\ UNCHANGED <<disk, err, COMPATIBLE, ONLY_UPGRADE, NEW_VERSION, existing_assets,
                   existing_configs, assets, i, asset, updated_assets, runs, edited,
                   repeat, previous, puts>>

\* Lines 610-613: the new config is built and stored, unless --no-new-config.
Release ==
    /\ pc = "release"
    /\ \E BUILD_CONFIG \in BOOLEAN, version \in Tokens,
          objects \in Listings(ConfigKeys(bucket)) :
         IF ~BUILD_CONFIG
         THEN /\ pc' = "done"
              /\ previous' = Versions(updated_assets)
              /\ UNCHANGED <<bucket, err, NEW_VERSION>>
         ELSE IF RaisesValueError(version)
         THEN /\ pc' = "failed"
              /\ err' = "ValueError"
              /\ previous' = Empty
              /\ NEW_VERSION' = version
              /\ UNCHANGED bucket
         ELSE LET CONFIG_VERSION == get_release_config_version(objects, version)
                  built == build_release_config(updated_assets, CONFIG_VERSION)
              IN  /\ bucket' = update_changed_configs(bucket, [k \in {built[1]} |-> built[2]])
                  /\ pc' = "done"
                  /\ previous' = Versions(updated_assets)
                  /\ NEW_VERSION' = version
                  /\ UNCHANGED err
    /\ ProcessExit
    /\ UNCHANGED <<disk, COMPATIBLE, ONLY_UPGRADE, runs, edited>>

\* The process is killed between two steps.
Abort ==
    /\ pc \notin Stopped
    /\ pc' = "aborted"
    /\ previous' = Empty
    /\ ProcessExit
    /\ UNCHANGED <<bucket, disk, err, COMPATIBLE, ONLY_UPGRADE, NEW_VERSION, runs, edited>>

Next ==
    \/ EditAssets
    \/ StartRun
    \/ UpdateAsset
    \/ UploadZipped
    \/ UpdateChangedConfigs
    \/ Release
    \/ Abort

Spec == Init /\ [][Next]_vars

----------------------------------------------------------------------------
(* Notions the properties are stated with *)

\* Numeric tuple comparison of two versions.
VersionLess(x, y) ==
    \/ x[1] < y[1]
    \/ x[1] = y[1] /\ x[2] < y[2]
    \/ x[1] = y[1] /\ x[2] = y[2] /\ x[3] < y[3]

\* The greatest version among the config keys of a bucket, <<0, 0, 0>> for none.
Greatest(b) ==
    LET versions == { k[2] : k \in ConfigKeys(b) } \cup { <<0, 0, 0>> }
    IN  CHOOSE v \in versions : \A w \in versions : w = v \/ VersionLess(w, v)

\* The bump a token asks for.
Bump(token, v) ==
    CASE token = <<"major">> -> <<v[1] + 1, 0, 0>>
      [] token = <<"minor">> -> <<v[1], v[2] + 1, 0>>
      [] token = <<"patch">> -> <<v[1], v[2], v[3] + 1>>

BumpTokens == { <<"major">>, <<"minor">>, <<"patch">> }

\* The step is one in which the key is put.
IsPut(key) ==
    /\ key \in DOMAIN bucket'
    /\ key \notin DOMAIN bucket \/ bucket'[key].VersionId # bucket[key].VersionId

\* The step stores the new config of a run given a bump token.
ReleasesBump ==
    pc = "release" /\ pc' = "done" /\ NEW_VERSION' \in BumpTokens

\* The step ends the pass of the loop of update_changed_assets for assets[i]:
\* update_asset has returned.
AssetDone == pc \in { "asset", "zipped" } /\ i' > i

\* The name of the file the loop of update_changed_assets is at.
CurrentName == assets[i][2]

\* The version stored for a name, 0 for a name never stored.
StoredVersion(b, name) ==
    IF AssetKey(name) \in DOMAIN b THEN b[AssetKey(name)].Metadata.version ELSE 0

\* update_changed_assets has returned.
AssetsReturned == pc \in { "configs", "release" }

\* A record with both compressed fields, and one with neither.
HasCompressed(record) == "zurl" \in DOMAIN record /\ "zsize" \in DOMAIN record

HasNoCompressed(record) == "zurl" \notin DOMAIN record /\ "zsize" \notin DOMAIN record

----------------------------------------------------------------------------
(* C1 *)

\* C1: the new config of a run given 'major', 'minor' or 'patch' has the
\* version that bumps the greatest (major, minor, patch) triple among the
\* config keys of the bucket, under numeric tuple comparison, in whatever
\* order the store lists the keys.
C1_BumpsGreatestVersion ==
    [][ReleasesBump =>
          IsPut(ConfigKey(Bump(NEW_VERSION', Greatest(bucket))))]_vars

(* C2 *)

\* C2: every upload of an asset stores a version number that is 1 plus the
\* version stored for that name before (1 for a name never stored), also
\* when two local files of one name are processed in one run.
C2_UploadIncrementsVersion ==
    [][\A name \in Names :
          IsPut(AssetKey(name)) =>
              StoredVersion(bucket', name) = StoredVersion(bucket, name) + 1]_vars

(* C3 *)

\* C3: a run that repeats a completed run, with the local files and the
\* options unchanged, puts no asset and returns the versions that run returned.
C3_SecondRunUploadsNothing ==
    repeat = "done" =>
        /\ puts = 0
        /\ AssetsReturned => Versions(updated_assets) = previous

(* C4 *)

\* The file entries of the configs read at the start that name the asset at
\* the given version, as <<config, index>>.
EntriesAt(configs, name, version) ==
    UNION { { <<c, j>> : j \in { k \in DOMAIN configs[c].content.files :
                                    /\ configs[c].content.files[k].name = name
                                    /\ configs[c].content.files[k].version = version } } :
            c \in DOMAIN configs }

\* C4: in compatible mode, when the local content differs from the remote
\* asset read at version v, update_asset stores the asset at version v + 1,
\* and every file entry of every existing config with the asset's name and
\* version v has version v + 1 and the size and url of the object just
\* stored, and its config is marked updated.
C4_CompatiblePatch ==
    [][(AssetDone /\ COMPATIBLE /\ LastVersion(assets[i]) > 0) =>
          LET v == LastVersion(assets[i])
              key == AssetKey(CurrentName)
          IN  /\ bucket'[key].Metadata.version = v + 1
              /\ bucket'[key].Body = AssetContent(assets[i])
              /\ \A e \in EntriesAt(existing_configs, CurrentName, v) :
                    LET file == existing_configs'[e[1]].content.files[e[2]]
                    IN  /\ file.name = CurrentName
                        /\ file.version = v + 1
                        /\ file.size = ContentLength(AssetContent(assets[i]))
                        /\ file.url = Url(key, bucket'[key].VersionId)
                        /\ existing_configs'[e[1]].updated]_vars

\* An asset that changed was stored at version 2 or more in a compatible
\* run, and an existing config's entry for it was rewritten to that version.
C4_Witness ==
    /\ COMPATIBLE
    /\ puts > 0
    /\ AssetsReturned
    /\ \E c \in DOMAIN existing_configs :
         /\ existing_configs[c].updated
         /\ \E j \in DOMAIN existing_configs[c].content.files :
              LET file == existing_configs[c].content.files[j]
              IN  /\ file.version >= 2
                  /\ AssetKey(file.name) \in DOMAIN bucket
                  /\ file.version = bucket[AssetKey(file.name)].Metadata.version
                  /\ file.url = Url(AssetKey(file.name), bucket[AssetKey(file.name)].VersionId)

(* C5 *)

\* C5: a run that is not in compatible mode and is given 'major', 'minor' or
\* 'patch' stores its new config under a key no config of the bucket has, in
\* whatever order the store lists the keys.
C5_NewConfigKeyIsFresh ==
    [][(ReleasesBump /\ ~COMPATIBLE) =>
          \E k \in ConfigKeys(bucket') : k \notin DOMAIN bucket]_vars

(* C6 *)

\* C6: update_changed_configs on the existing configs puts each config whose
\* 'updated' flag is true under its own key, once, and leaves every other
\* object of the bucket as it is; the call on the new config puts that
\* config under one config key and nothing else.
C6_OnlyUpdatedConfigsWritten ==
    [][/\ (pc = "configs" /\ pc' = "release") =>
            /\ DOMAIN bucket' = DOMAIN bucket
            /\ \A k \in DOMAIN bucket :
                  IF k \in DOMAIN existing_configs /\ existing_configs[k].updated
                  THEN /\ bucket'[k].Body = existing_configs[k].content
                       /\ bucket'[k].VersionId = bucket[k].VersionId + 1
                  ELSE bucket'[k] = bucket[k]
       /\ (pc = "release" /\ pc' = "done") =>
            /\ \A k \in DOMAIN bucket : k \in DOMAIN bucket' /\ (IsPut(k) \/ bucket'[k] = bucket[k])
            /\ \A k \in DOMAIN bucket' :
                  IsPut(k) => IsConfigKey(k) /\ bucket'[k].Body.files = updated_assets
            /\ Cardinality({ k \in DOMAIN bucket' : IsPut(k) })
                   = IF NEW_VERSION' = None THEN 0 ELSE 1]_vars

\* update_changed_configs has run on a collection that holds a config marked
\* updated, now stored as patched, and a config not marked, stored as it was read.
C6_Witness ==
    /\ COMPATIBLE
    /\ pc = "release"
    /\ \E c \in DOMAIN existing_configs :
         existing_configs[c].updated /\ bucket[c].Body = existing_configs[c].content
    /\ \E c \in DOMAIN existing_configs :
         ~existing_configs[c].updated /\ bucket[c].Body = existing_configs[c].content

(* C7 *)

\* Every asset record and file entry the script holds or has stored.
AllRecords ==
    { asset }
    \cup { updated_assets[j] : j \in DOMAIN updated_assets }
    \cup UNION { { existing_configs[c].content.files[j] :
                     j \in DOMAIN existing_configs[c].content.files } :
                 c \in DOMAIN existing_configs }
    \cup UNION { { bucket[k].Body.files[j] : j \in DOMAIN bucket[k].Body.files } :
                 k \in ConfigKeys(bucket) }

\* C7: in every asset record update_asset and update_changed_assets return,
\* in every file entry of a stored config and of a config patched in
\* compatible mode, zurl and zsize are both present or both absent.
C7_CompressedFieldsTogether ==
    \A record \in AllRecords : HasCompressed(record) \/ HasNoCompressed(record)

\* A compatible run has patched an entry that had the compressed fields and
\* has lost both, the new asset having no compressed sibling.
C7_Witness ==
    /\ COMPATIBLE
    /\ \E c \in DOMAIN existing_configs :
         /\ existing_configs[c].updated
         /\ existing_configs[c].content # bucket[c].Body
         /\ \E j \in DOMAIN existing_configs[c].content.files :
              /\ HasNoCompressed(existing_configs[c].content.files[j])
              /\ HasCompressed(bucket[c].Body.files[j])

(* C8 *)

\* C8: in compatible mode, update_asset on an asset whose local content
\* equals the remote content (no upload) changes no entry of any existing
\* config and marks no config updated.
C8_NoPatchWithoutUpload ==
    [][(AssetDone /\ COMPATIBLE /\ ~UploadFile(assets[i])) =>
          existing_configs' = existing_configs]_vars

(* C9 *)

\* The record update_changed_assets holds for a name.
BuiltFor(built_assets, name) ==
    built_assets[CHOOSE j \in DOMAIN built_assets : built_assets[j].name = name]

\* C9: a file entry patched in compatible mode has zurl and zsize exactly
\* when the new asset record has them, and then with the record's values,
\* whether or not the entry had them before.
C9_PatchMatchesCompression ==
    [][(AssetDone /\ COMPATIBLE) =>
          LET new == BuiltFor(updated_assets', CurrentName)
          IN  \A e \in EntriesAt(existing_configs, CurrentName, new.version - 1) :
                 LET file == existing_configs'[e[1]].content.files[e[2]]
                 IN  IF HasCompressed(new)
                     THEN /\ HasCompressed(file)
                          /\ file.zurl = new.zurl
                          /\ file.zsize = new.zsize
                     ELSE HasNoCompressed(file)]_vars

(* C10 *)

\* The last file of a name in the list: the one whose bytes a run leaves stored.
LastFileOf(files, name) ==
    files[CHOOSE j \in DOMAIN files :
             /\ files[j][2] = name
             /\ \A k \in DOMAIN files : files[k][2] = name => k <= j]

\* The bucket holds, for every asset the run processed, the local bytes and
\* those of the compressed sibling.
HoldsLocalBytes(b, files) ==
    \A j \in DOMAIN files :
        IsZipped(files[j][2]) \/
        LET file == LastFileOf(files, files[j][2])
            name == file[2]
        IN  /\ AssetKey(name) \in DOMAIN b
            /\ b[AssetKey(name)].Body = AssetContent(file)
            /\ AssetZContent(file) # <<>> =>
                  /\ ZippedKey(name) \in DOMAIN b
                  /\ b[ZippedKey(name)].Body = AssetZContent(file)

\* C10: a run that repeats an aborted run, with the local files and the
\* options unchanged, raises no error in update_asset, and when it completes
\* every asset it processed and its compressed sibling are stored with the
\* local bytes.
C10_RerunAfterAbortRecovers ==
    [][repeat = "aborted" =>
          /\ pc \in { "asset", "zipped" } => pc' # "failed"
          /\ pc' = "done" => HoldsLocalBytes(bucket', assets)]_vars

(* C11 *)

\* The asset mapping the bucket determines: one record for every base key,
\* flagged as zipped exactly when the bucket holds the compressed key of it.
AssetsOf(b) ==
    [name \in { SubSeq(k, 2, Len(k)) : k \in { x \in AssetKeys(b) : ~IsZipped(x) } } |->
        [content |-> b[AssetKey(name)].Body,
         version |-> b[AssetKey(name)].Metadata.version,
         versionId |-> b[AssetKey(name)].VersionId,
         zipped |-> ZippedKey(name) \in DOMAIN b]]

\* The script starts and reads the bucket.
ReadsBucket == pc \in Stopped /\ runs' = runs + 1

\* C11: whatever the order in which the store lists its objects, reading the
\* remote state does not fail and yields the one asset mapping the bucket
\* determines, the record of a base asset flagged as zipped exactly when a
\* compressed key exists for it.
C11_ReadIsOrderIndependent ==
    [][ReadsBucket => /\ pc' # "failed"
                      /\ existing_assets' = AssetsOf(bucket)]_vars

====
